---- MODULE Spec2Model ----
(***************************************************************************)
(* Model of Sources/_ImageryInternals/Implementation+COFF.cpp: the Windows *)
(* (PE/COFF) implementation of image enumeration, image naming and section *)
(* lookup.                                                                 *)
(*                                                                         *)
(* One call of one operation is modelled per behaviour: from "idle" a call *)
(* of sml_findSection, sml_enumerateImages or sml_withImageName is made on *)
(* inputs drawn from bounded sets, and then runs step by step to "done".   *)
(*                                                                         *)
(* Addresses are plain integers.  The model is of a 64-bit build: LONG and *)
(* DWORD header fields are 32 bits wide and are added to a 64-bit base, so *)
(* base + e_lfanew and base + VirtualAddress never wrap.                   *)
(*                                                                         *)
(* A read outside the image's mapped extent is undefined behaviour: it     *)
(* either raises an access violation (result "fault") or yields whatever   *)
(* the neighbouring memory holds (the content of `memory`, which is        *)
(* arbitrary input).                                                       *)
(***************************************************************************)
EXTENDS Integers, Sequences, FiniteSets, TLC

VARIABLES
    op,             \* the operation called
    pc,             \* position of the running call
    image,          \* SMLImage argument: [base, name]
    moduleSize,     \* environment: size of the image's mapping
    memory,         \* environment: header fields found in memory
    sectionName,    \* requested name: the bytes before the terminating NUL
    ntHeader,       \* local of sml_findSection
    sectionCount,   \* local of sml_findSection
    section,        \* local of sml_findSection: address of the current entry
    i,              \* loop index (both loops)
    outSection,     \* *outSection
    result,         \* "running", "true", "false", "void" or "fault"
    reads,          \* ghost: every memory range read, [addr, len]
    nameTests,      \* ghost: every name comparison made, [index, matched]
    os,             \* environment: what the OS answers to this call
    hModules,       \* local of sml_enumerateImages: the filled part of the buffer
    hModuleCount,   \* local of sml_enumerateImages
    visits,         \* ghost: every invocation of the enumeration body
    nameCalls       \* ghost: every invocation of the name callback

vars == <<op, pc, image, moduleSize, memory, sectionName, ntHeader, sectionCount,
          section, i, outSection, result, reads, nameTests, os, hModules,
          hModuleCount, visits, nameCalls>>

findVars == <<moduleSize, memory, sectionName, ntHeader, sectionCount,
              section, outSection, reads, nameTests>>
enumVars == <<hModules, hModuleCount, visits>>

----------------------------------------------------------------------------
(* Bounds of the model *)

MaxSections == 2
MaxModules == 3
MaxOverflow == 1

----------------------------------------------------------------------------
(* Constants of the program and of the PE/COFF layout it reads (the field  *)
(* offsets and sizes of IMAGE_DOS_HEADER, IMAGE_NT_HEADERS64 and            *)
(* IMAGE_SECTION_HEADER, and sizeof(HMODULE), of a 64-bit build)           *)

HModulesCapacity == 1024
SizeofHMODULE == 8
IMAGE_NT_SIGNATURE == 17744
IMAGE_SIZEOF_SHORT_NAME == 8
Offset_e_lfanew == 60
Offset_Signature == 0
Offset_NumberOfSections == 6
Offset_SizeOfOptionalHeader == 20
Offset_OptionalHeader == 24
SizeofSectionHeader == 40
Offset_Name == 0
Offset_VirtualSize == 8
Offset_VirtualAddress == 12
Offset_SizeOfRawData == 16

Null == 0

Min(a, b) == IF a < b THEN a ELSE b

----------------------------------------------------------------------------
(* Inputs *)

Handles == 1..MaxModules

ImageBases == {65536}
ImageSizes == {8192}

\* Names held in an entry's 8-byte Name field.
Field_AB == <<65, 66, 0, 0, 0, 0, 0, 0>>
Field_AB_nul_CDEFG == <<65, 66, 0, 67, 68, 69, 70, 71>>
Field_ABCDEFGH == <<65, 66, 67, 68, 69, 70, 71, 72>>
FieldNames == {Field_AB, Field_AB_nul_CDEFG, Field_ABCDEFGH}

\* Requested names: C strings, given by the bytes before the terminator.
Name_A == <<65>>
Name_AB == <<65, 66>>
Name_ABCDEFGH == <<65, 66, 67, 68, 69, 70, 71, 72>>
Name_ABCDEFGHI == <<65, 66, 67, 68, 69, 70, 71, 72, 73>>
RequestedNames == {Name_A, Name_AB, Name_ABCDEFGH, Name_ABCDEFGHI}

\* Section-table entries: unmapped (0), inside the image, beyond the image.
VirtualAddresses(size) == {0, 4096, size + 4096}
\* <<VirtualSize, SizeOfRawData>>
SizePairs == {<<0, 24>>, <<16, 0>>, <<16, 24>>, <<32, 24>>}

Entries(size) ==
    { [Name |-> n, VirtualSize |-> sp[1], VirtualAddress |-> va,
       SizeOfRawData |-> sp[2]] :
        n \in FieldNames, va \in VirtualAddresses(size), sp \in SizePairs }

FewEntries ==
    { [Name |-> Field_AB, VirtualSize |-> 16, VirtualAddress |-> va,
       SizeOfRawData |-> 24] : va \in {0, 4096} }

Tables(E) == UNION { [1..n -> E] : n \in 0..MaxSections }

\* Images with a well-formed header and any section table.
WellFormedMemories(size) ==
    { [e_lfanew |-> 128, Signature |-> IMAGE_NT_SIGNATURE,
       NumberOfSections |-> Len(t), SizeOfOptionalHeader |-> 240,
       sections |-> t] : t \in Tables(Entries(size)) }

\* Images with any header, well-formed or not, and a simple section table.
AnyHeaderMemories(size) ==
    { [e_lfanew |-> e, Signature |-> sg, NumberOfSections |-> Len(t),
       SizeOfOptionalHeader |-> oh, sections |-> t] :
        e \in {-4, 0, 128, size - 4, size - 2, size + 64},
        sg \in {0, IMAGE_NT_SIGNATURE},
        oh \in {0, 224, 240,
                size - 128 - Offset_OptionalHeader - SizeofSectionHeader,
                size},
        t \in Tables(FewEntries) }

\* A buffer of zero bytes.
ZeroMemory ==
    [e_lfanew |-> 0, Signature |-> 0, NumberOfSections |-> 0,
     SizeOfOptionalHeader |-> 0, sections |-> << >>]

FindInputs(size) ==
    ({Name_AB} \X AnyHeaderMemories(size))
        \cup (RequestedNames \X WellFormedMemories(size))

NoSection == [start |-> Null, size |-> 0]
NoMemory == ZeroMemory

----------------------------------------------------------------------------
(* sml_findSection *)

Rd(addr, len) == [addr |-> addr, len |-> len]

\* Whether a read lies within the image's mapping.
Mapped(r) ==
    /\ r.addr >= image.base
    /\ r.addr + r.len <= image.base + moduleSize

\* The reads of `rs` (a sequence) that happen when the first unmapped one faults.
RECURSIVE UpToFault(_)
UpToFault(rs) ==
    IF rs = << >> THEN << >>
    ELSE IF ~Mapped(Head(rs)) THEN <<Head(rs)>>
    ELSE <<Head(rs)>> \o UpToFault(Tail(rs))

Range(s) == { s[k] : k \in DOMAIN s }
CanFault(rs) == \E r \in Range(rs) : ~Mapped(r)

\* Byte k (from 0) of a C string: its bytes, then the terminating NUL.
CharAt(str, k) == IF k < Len(str) THEN str[k + 1] ELSE 0

\* std::strncmp(s1, s2, n) from position k on: stops at the first difference,
\* at a NUL in s1 (then also in s2), or after n bytes.
RECURSIVE StrncmpFrom(_, _, _, _)
StrncmpFrom(s1, s2, n, k) ==
    IF k >= n THEN 0
    ELSE IF CharAt(s1, k) # CharAt(s2, k) THEN CharAt(s1, k) - CharAt(s2, k)
    ELSE IF CharAt(s1, k) = 0 THEN 0
    ELSE StrncmpFrom(s1, s2, n, k + 1)

strncmp(s1, s2, n) == StrncmpFrom(s1, s2, n, 0)

\* How many bytes of each argument strncmp looks at.
RECURSIVE StrncmpSpan(_, _, _, _)
StrncmpSpan(s1, s2, n, k) ==
    IF k >= n THEN k
    ELSE IF CharAt(s1, k) # CharAt(s2, k) THEN k + 1
    ELSE IF CharAt(s1, k) = 0 THEN k + 1
    ELSE StrncmpSpan(s1, s2, n, k + 1)

\* line 85
BadDosHeader(mem) == mem.e_lfanew <= 0

\* line 89
NtHeaderAddress(base, mem) == base + mem.e_lfanew

\* line 90
BadNtHeader(nt, mem) == nt = Null \/ mem.Signature # IMAGE_NT_SIGNATURE

\* line 95: IMAGE_FIRST_SECTION(ntHeader)
FirstSection(nt, mem) == nt + Offset_OptionalHeader + mem.SizeOfOptionalHeader

\* line 97 with the test left out
IsUnmapped_never(entry) == FALSE

\* line 97
IsUnmapped(entry) == entry.VirtualAddress = 0

\* line 101
SectionStart(base, entry) == base + entry.VirtualAddress

\* line 102
SectionSize(entry) == Min(entry.VirtualSize, entry.SizeOfRawData)

\* line 103
IsUsable(start, size) == start # Null /\ size > 0

\* line 106
NameMatches(name, entry) ==
    0 = strncmp(name, entry.Name, IMAGE_SIZEOF_SHORT_NAME)

\* The reads the header check at lines 89-95 makes, in order.
NtHeaderReads(nt, mem) ==
    IF nt = Null THEN << >>
    ELSE IF mem.Signature # IMAGE_NT_SIGNATURE
    THEN << Rd(nt + Offset_Signature, 4) >>
    ELSE << Rd(nt + Offset_Signature, 4),
            Rd(nt + Offset_NumberOfSections, 2),
            Rd(nt + Offset_SizeOfOptionalHeader, 2) >>

\* The reads one iteration of the loop at lines 96-112 makes, in order.
EntryReads(at, base, name, entry) ==
    << Rd(at + Offset_VirtualAddress, 4) >>
    \o (IF IsUnmapped(entry) THEN << >>
        ELSE << Rd(at + Offset_VirtualSize, 4),
                Rd(at + Offset_SizeOfRawData, 4) >>
             \o (IF IsUsable(SectionStart(base, entry), SectionSize(entry))
                 THEN << Rd(at + Offset_Name,
                            StrncmpSpan(name, entry.Name,
                                        IMAGE_SIZEOF_SHORT_NAME, 0)) >>
                 ELSE << >>))

CurrentEntry == memory.sections[i + 1]

CallFindSection ==
    /\ pc = "idle"
    /\ op' = "sml_findSection"
    /\ \E base \in ImageBases, size \in ImageSizes :
        \E inp \in FindInputs(size) \cup {<<Name_AB, ZeroMemory>>} :
            /\ image' = [base |-> base, name |-> << >>]
            /\ moduleSize' = size
            /\ sectionName' = inp[1]
            /\ memory' = inp[2]
    /\ pc' = "fs_dos"
    /\ result' = "running"
    /\ UNCHANGED <<ntHeader, sectionCount, section, i, outSection, reads,
                   nameTests, os, hModules, hModuleCount, visits, nameCalls>>

\* lines 84-87
FindDosHeader ==
    /\ pc = "fs_dos"
    /\ op' = op
    /\ reads' = reads \cup {Rd(image.base + Offset_e_lfanew, 4)}
    /\ IF BadDosHeader(memory)
       THEN pc' = "done" /\ result' = "false"
       ELSE pc' = "fs_nt" /\ result' = result
    /\ UNCHANGED <<image, moduleSize, memory, sectionName, ntHeader,
                   sectionCount, section, i, outSection, nameTests, os,
                   hModules, hModuleCount, visits, nameCalls>>

\* lines 89-95
FindNtHeader ==
    /\ pc = "fs_nt"
    /\ op' = op
    /\ LET nt == NtHeaderAddress(image.base, memory) IN
        /\ reads' = reads \cup Range(NtHeaderReads(nt, memory))
        /\ ntHeader' = nt
        /\ IF BadNtHeader(nt, memory)
           THEN /\ pc' = "done"
                /\ result' = "false"
                /\ UNCHANGED <<sectionCount, section, i>>
           ELSE /\ pc' = "fs_loop"
                /\ result' = result
                /\ sectionCount' = memory.NumberOfSections
                /\ section' = FirstSection(nt, memory)
                /\ i' = 0
    /\ UNCHANGED <<image, moduleSize, memory, sectionName, outSection,
                   nameTests, os, hModules, hModuleCount, visits, nameCalls>>

\* lines 89-95, when a header read outside the mapping faults
FindNtHeaderFault ==
    /\ pc = "fs_nt"
    /\ op' = op
    /\ LET nt == NtHeaderAddress(image.base, memory) IN
        /\ CanFault(NtHeaderReads(nt, memory))
        /\ reads' = reads \cup Range(UpToFault(NtHeaderReads(nt, memory)))
        /\ ntHeader' = nt
    /\ pc' = "done"
    /\ result' = "fault"
    /\ UNCHANGED <<image, moduleSize, memory, sectionName, sectionCount,
                   section, i, outSection, nameTests, os, hModules,
                   hModuleCount, visits, nameCalls>>

\* line 96 (loop exit) and line 114
FindLoopExit ==
    /\ pc = "fs_loop"
    /\ op' = op
    /\ ~(i < sectionCount)
    /\ pc' = "done"
    /\ result' = "false"
    /\ UNCHANGED <<image, moduleSize, memory, sectionName, ntHeader,
                   sectionCount, section, i, outSection, reads, nameTests,
                   os, hModules, hModuleCount, visits, nameCalls>>

\* lines 96-112: one iteration
FindLoopBody ==
    /\ pc = "fs_loop"
    /\ op' = op
    /\ i < sectionCount
    /\ LET entry == CurrentEntry
           start == SectionStart(image.base, entry)
           size == SectionSize(entry)
           tested == ~IsUnmapped(entry) /\ IsUsable(start, size)
           matched == tested /\ NameMatches(sectionName, entry)
       IN
        /\ reads' = reads
              \cup Range(EntryReads(section, image.base, sectionName, entry))
        /\ nameTests' = IF tested
                        THEN nameTests
                               \cup {[index |-> i + 1, matched |-> matched]}
                        ELSE nameTests
        /\ IF matched
           THEN /\ outSection' = [start |-> start, size |-> size]
                /\ result' = "true"
                /\ pc' = "done"
                /\ UNCHANGED <<i, section>>
           ELSE /\ i' = i + 1
                /\ section' = section + SizeofSectionHeader
                /\ UNCHANGED <<outSection, result, pc>>
    /\ UNCHANGED <<image, moduleSize, memory, sectionName, ntHeader,
                   sectionCount, os, hModules, hModuleCount, visits,
                   nameCalls>>

\* lines 96-112, when a read of the entry outside the mapping faults
FindLoopFault ==
    /\ pc = "fs_loop"
    /\ op' = op
    /\ i < sectionCount
    /\ LET rs == EntryReads(section, image.base, sectionName, CurrentEntry) IN
        /\ CanFault(rs)
        /\ reads' = reads \cup Range(UpToFault(rs))
    /\ pc' = "done"
    /\ result' = "fault"
    /\ UNCHANGED <<image, moduleSize, memory, sectionName, ntHeader,
                   sectionCount, section, i, outSection, nameTests, os,
                   hModules, hModuleCount, visits, nameCalls>>

----------------------------------------------------------------------------
(* The OS, as this call sees it *)

\* The module lists the OS may report: every order of a few modules, and
\* lists around the capacity of the buffer.
Orders(n) == { f \in [1..n -> 1..n] : \A a, b \in 1..n : f[a] = f[b] => a = b }
ModuleLists ==
    UNION { Orders(n) : n \in 0..MaxModules }
        \cup { [k \in 1..n |-> k] :
                 n \in (HModulesCapacity - 1)..(HModulesCapacity + MaxOverflow) }

NoOS == [enumOK |-> FALSE, modules |-> << >>, nameless |-> {}]

\* The path the OS holds for a module.
ModuleFileName(h) == <<h>>

\* GetModuleFileNameW: the length written, 0 on failure.
GetModuleFileNameW(h) ==
    IF h \in os.nameless THEN 0 ELSE Len(ModuleFileName(h))

\* lines 23-27
SMLImage(base) ==
    [base |-> base,
     name |-> IF 0 = GetModuleFileNameW(base) THEN << >>
              ELSE ModuleFileName(base)]

NoImage == [base |-> Null, name |-> << >>]

----------------------------------------------------------------------------
(* sml_enumerateImages *)

\* What is found in slot k (from 0) of the buffer; a slot the OS did not
\* fill, or one past the buffer, holds no module handle (no correct run
\* reads one).
ModuleAt(buf, k) == IF k + 1 \in DOMAIN buf THEN buf[k + 1] ELSE Null

\* line 39: what EnumProcessModules stores in a buffer of `capacity` handles
FilledBuffer(modules, capacity) ==
    SubSeq(modules, 1, Min(capacity, Len(modules)))

\* line 39: *lpcbNeeded
ByteCountNeeded(modules) == Len(modules) * SizeofHMODULE

\* line 42 without the clamp to the buffer's capacity
HModuleCount_unclamped(byteCountNeeded) ==
    byteCountNeeded \div SizeofHMODULE

\* line 42
HModuleCount(byteCountNeeded) ==
    Min(HModulesCapacity, byteCountNeeded \div SizeofHMODULE)

\* line 47
StopOnEntry == FALSE

\* line 49 with the flag ignored
ShouldBreak_never(stop) == FALSE

\* line 49
ShouldBreak(stop) == stop

CallEnumerateImages ==
    /\ pc = "idle"
    /\ op' = "sml_enumerateImages"
    /\ \E ok \in BOOLEAN, ms \in ModuleLists, nl \in {{}, {2}} :
        os' = [enumOK |-> ok, modules |-> ms, nameless |-> nl]
    /\ pc' = "en_query"
    /\ result' = "running"
    /\ UNCHANGED <<image, i, findVars, enumVars, nameCalls>>

\* lines 37-42
EnumQuery ==
    /\ pc = "en_query"
    /\ op' = op
    /\ IF ~os.enumOK
       THEN /\ pc' = "done"
            /\ result' = "void"
            /\ UNCHANGED <<hModules, hModuleCount, i>>
       ELSE /\ hModules' = FilledBuffer(os.modules, HModulesCapacity)
            /\ hModuleCount' = HModuleCount(ByteCountNeeded(os.modules))
            /\ i' = 0
            /\ pc' = "en_loop"
            /\ result' = result
    /\ UNCHANGED <<image, findVars, os, visits, nameCalls>>

\* line 44 (loop exit)
EnumLoopExit ==
    /\ pc = "en_loop"
    /\ op' = op
    /\ ~(i < hModuleCount)
    /\ pc' = "done"
    /\ result' = "void"
    /\ UNCHANGED <<image, i, findVars, os, enumVars, nameCalls>>

\* lines 44-52: one iteration; the body may set *stop or leave it alone
EnumLoopBody ==
    /\ pc = "en_loop"
    /\ op' = op
    /\ i < hModuleCount
    /\ \E bodySetsStop \in BOOLEAN :
        LET img == SMLImage(ModuleAt(hModules, i))
            stop == StopOnEntry \/ bodySetsStop
        IN
        /\ image' = img
        /\ visits' = Append(visits, [index |-> i, image |-> img,
                                     stopOnEntry |-> StopOnEntry,
                                     stopOnReturn |-> stop])
        /\ IF ShouldBreak(stop)
           THEN pc' = "done" /\ result' = "void" /\ i' = i
           ELSE pc' = pc /\ result' = result /\ i' = i + 1
    /\ UNCHANGED <<findVars, os, hModules, hModuleCount, nameCalls>>

----------------------------------------------------------------------------
(* sml_withImageName *)

NameBuffer == "&name[0]"
NullName == "nullptr"

\* lines 72-76 returning without the callback when resolution fails
NameCallbacks_silentFailure(img) ==
    IF 0 # GetModuleFileNameW(img.base)
    THEN << [image |-> img, name |-> NameBuffer,
             text |-> ModuleFileName(img.base)] >>
    ELSE << >>

\* lines 72-76: the invocations of `body` one call makes
NameCallbacks(img) ==
    IF 0 # GetModuleFileNameW(img.base)
    THEN << [image |-> img, name |-> NameBuffer,
             text |-> ModuleFileName(img.base)] >>
    ELSE << [image |-> img, name |-> NullName, text |-> << >>] >>

CallWithImageName ==
    /\ pc = "idle"
    /\ op' = "sml_withImageName"
    /\ \E base \in Handles, nl \in SUBSET Handles, constructedNamed \in BOOLEAN :
        /\ os' = [enumOK |-> TRUE, modules |-> << >>, nameless |-> nl]
        /\ image' = [base |-> base,
                     name |-> IF constructedNamed THEN ModuleFileName(base)
                              ELSE << >>]
    /\ pc' = "wn_call"
    /\ result' = "running"
    /\ UNCHANGED <<i, findVars, enumVars, nameCalls>>

\* lines 71-77
WithImageName ==
    /\ pc = "wn_call"
    /\ op' = op
    /\ nameCalls' = nameCalls \o NameCallbacks(image)
    /\ pc' = "done"
    /\ result' = "void"
    /\ UNCHANGED <<image, i, findVars, os, enumVars>>

----------------------------------------------------------------------------

Init ==
    /\ op = "none"
    /\ pc = "idle"
    /\ image = NoImage
    /\ moduleSize = 0
    /\ memory = NoMemory
    /\ sectionName = << >>
    /\ ntHeader = Null
    /\ sectionCount = 0
    /\ section = Null
    /\ i = 0
    /\ outSection = NoSection
    /\ result = "running"
    /\ reads = {}
    /\ nameTests = {}
    /\ os = NoOS
    /\ hModules = << >>
    /\ hModuleCount = 0
    /\ visits = << >>
    /\ nameCalls = << >>

Next ==
    \/ CallFindSection
    \/ FindDosHeader
    \/ FindNtHeader
    \/ FindNtHeaderFault
    \/ FindLoopExit
    \/ FindLoopBody
    \/ FindLoopFault
    \/ CallEnumerateImages
    \/ EnumQuery
    \/ EnumLoopExit
    \/ EnumLoopBody
    \/ CallWithImageName
    \/ WithImageName

Spec == Init /\ [][Next]_vars

----------------------------------------------------------------------------
(* Properties *)

FindCalled == op = "sml_findSection"
FindReturned == FindCalled /\ pc = "done" /\ result \in {"true", "false"}
EnumCalled == op = "sml_enumerateImages"
NameCalled == op = "sml_withImageName"

\* A requested name as an 8-byte field: its bytes, NUL-padded.
Pad8(name) == [k \in 1..IMAGE_SIZEOF_SHORT_NAME |-> CharAt(name, k - 1)]

HeaderValid ==
    memory.e_lfanew > 0 /\ memory.Signature = IMAGE_NT_SIGNATURE

\* Entry k is one the lookup is specified to report for the requested name.
Qualifies(k) ==
    LET e == memory.sections[k] IN
    /\ e.VirtualAddress # 0
    /\ e.Name = Pad8(sectionName)
    /\ Min(e.VirtualSize, e.SizeOfRawData) > 0

Qualifying == { k \in 1..memory.NumberOfSections : Qualifies(k) }
FirstOf(S) == CHOOSE k \in S : \A j \in S : k <= j

\* C1: with a valid header and a requested name of at most 8 bytes, the
\* lookup returns the first entry (in table order) with nonzero
\* VirtualAddress, Name field equal to the requested name and
\* min(VirtualSize, SizeOfRawData) > 0, as start = base + VirtualAddress and
\* size = min(VirtualSize, SizeOfRawData); it returns failure if there is none.
C1_FirstEqualNameReturned ==
    (FindReturned /\ HeaderValid /\ Len(sectionName) <= IMAGE_SIZEOF_SHORT_NAME)
    => IF Qualifying # {}
       THEN LET e == memory.sections[FirstOf(Qualifying)] IN
            /\ result = "true"
            /\ outSection =
                 [start |-> image.base + e.VirtualAddress,
                  size |-> Min(e.VirtualSize, e.SizeOfRawData)]
       ELSE result = "false"

\* C2: a requested name longer than 8 bytes is never found, whatever the
\* section table holds.
C2_LongNameNotFound ==
    (FindReturned /\ Len(sectionName) > IMAGE_SIZEOF_SHORT_NAME)
    => result = "false"

\* C3: an entry whose VirtualAddress is zero is never returned and never has
\* its name examined, whatever its name and sizes are, and it does not end
\* the search: a lookup that walks the table and fails has passed every entry.
C3_ZeroAddressSkipped ==
    FindCalled =>
        /\ result = "true" =>
            /\ CurrentEntry.VirtualAddress # 0
            /\ outSection.start # image.base
        /\ \A t \in nameTests : memory.sections[t.index].VirtualAddress # 0
        /\ (pc = "done" /\ result = "false" /\ HeaderValid)
            => i = memory.NumberOfSections

\* C3 witness: a lookup that returned a later entry after passing an entry
\* with zero VirtualAddress whose name and sizes would have matched.
C3_Witness ==
    /\ FindCalled /\ pc = "done" /\ result = "true"
    /\ \E k \in 1..i :
        LET e == memory.sections[k] IN
        /\ e.VirtualAddress = 0
        /\ e.Name = Pad8(sectionName)
        /\ Min(e.VirtualSize, e.SizeOfRawData) > 0

\* C4: whenever the lookup succeeds, the returned size is positive and the
\* returned start lies within the image's mapping [base, base + moduleSize).
C4_SectionWithinImage ==
    (FindCalled /\ result = "true")
    => /\ outSection.size > 0
       /\ outSection.start >= image.base
       /\ outSection.start < image.base + moduleSize

\* C5: every memory read of the lookup lies within the image's mapping, and
\* on a buffer of zero bytes the lookup fails having read only the DOS header.
C5_ReadsStayMapped ==
    FindCalled =>
        /\ \A r \in reads : Mapped(r)
        /\ (pc = "done" /\ memory = ZeroMemory)
            => /\ result = "false"
               /\ reads = {Rd(image.base + Offset_e_lfanew, 4)}

\* C6: if e_lfanew is not strictly positive, or the header at base + e_lfanew
\* does not hold the NT signature, the lookup returns false, having examined
\* no section-table entry and leaving *outSection as it was.
C6_BadHeaderReturnsFalse ==
    (FindCalled /\ pc = "done"
        /\ (memory.e_lfanew <= 0 \/ memory.Signature # IMAGE_NT_SIGNATURE))
    => /\ result = "false"
       /\ nameTests = {}
       /\ reads \subseteq {Rd(image.base + Offset_e_lfanew, 4),
                           Rd(image.base + memory.e_lfanew + Offset_Signature, 4)}
       /\ outSection = NoSection

NoVisitStopped == \A k \in DOMAIN visits : ~visits[k].stopOnReturn

\* C7: the body is invoked on the handles in snapshot order, one invocation
\* per handle; the stop flag is false on entry to every invocation; no
\* invocation follows one that set the flag; and when none sets it and the
\* snapshot fits the buffer, every handle of the snapshot is visited.
C7_VisitsInOrderUntilStop ==
    EnumCalled =>
        /\ \A k \in DOMAIN visits :
            /\ visits[k].index = k - 1
            /\ visits[k].image.base = os.modules[k]
            /\ ~visits[k].stopOnEntry
            /\ visits[k].stopOnReturn => k = Len(visits)
        /\ (visits # << >> /\ visits[Len(visits)].stopOnReturn) => pc = "done"
        /\ (pc = "done" /\ os.enumOK /\ NoVisitStopped
                /\ Len(os.modules) <= HModulesCapacity)
            => Len(visits) = Len(os.modules)

\* C7 witness: an enumeration of three modules, reported out of numeric
\* order, that ended when the second invocation set the stop flag.
C7_Witness ==
    /\ EnumCalled /\ pc = "done"
    /\ os.modules = <<3, 1, 2>>
    /\ Len(visits) = 2
    /\ ~visits[1].stopOnReturn /\ visits[2].stopOnReturn
    /\ visits[1].image.base = 3 /\ visits[2].image.base = 1

\* C8: if the module-list query fails the body is never invoked; otherwise
\* no slot of the buffer at index 1024 or above is read, and an enumeration
\* that is not stopped invokes the body min(reported count, 1024) times.
C8_FailureAndTruncation ==
    EnumCalled =>
        /\ ~os.enumOK => visits = << >>
        /\ \A k \in DOMAIN visits :
            /\ visits[k].index < HModulesCapacity
            /\ visits[k].index < Len(hModules)
        /\ (pc = "done" /\ os.enumOK /\ NoVisitStopped)
            => Len(visits) = Min(Len(os.modules), HModulesCapacity)

\* C8 witness: the OS reported more modules than the buffer holds and the
\* enumeration ran to its end.
C8_Witness ==
    /\ EnumCalled /\ pc = "done" /\ os.enumOK
    /\ Len(os.modules) > HModulesCapacity
    /\ Len(visits) = HModulesCapacity
    /\ NoVisitStopped

\* C9: one call invokes the callback exactly once: with the resolved name
\* when the OS resolves it, with a null name when it does not.
C9_CallbackExactlyOnce ==
    NameCalled =>
        /\ Len(nameCalls) <= 1
        /\ pc = "done" =>
            /\ Len(nameCalls) = 1
            /\ nameCalls[1].image = image
            /\ IF image.base \in os.nameless
               THEN nameCalls[1].name = NullName
               ELSE /\ nameCalls[1].name = NameBuffer
                    /\ nameCalls[1].text = ModuleFileName(image.base)

\* C9 witness: a call whose name resolution failed has returned.
C9_Witness ==
    /\ NameCalled /\ pc = "done"
    /\ image.base \in os.nameless
    /\ Len(nameCalls) = 1
    /\ nameCalls[1].name = NullName

\* C10: the name test compares all 8 bytes of the entry's Name field with
\* the requested name NUL-padded to 8 bytes: it matches exactly when the two
\* are equal.
C10_NameTestIsExact ==
    (FindCalled /\ Len(sectionName) <= IMAGE_SIZEOF_SHORT_NAME)
    => \A t \in nameTests :
        t.matched <=> (memory.sections[t.index].Name = Pad8(sectionName))

====
